---- MODULE Spec2Model ----
(***************************************************************************)
(* A model of generate-registry.ts: the scan of registry/<category>/<entity> *)
(* directories, the classification of each file's imports, and the merge   *)
(* of the computed items into registry.json.                               *)
(*                                                                         *)
(* Strings are sequences of one-character strings, so that prefix tests,   *)
(* splitting, case conversion and the code-unit order used by              *)
(* Array.prototype.sort are computed and not assumed.                      *)
(***************************************************************************)
EXTENDS Naturals, Integers, Sequences, FiniteSets, TLC

---------------------------------------------------------------------------
(* Bounds of the explored inputs.                                          *)

\* Entity directories on disk, over all categories.
MaxEntities == 2
\* Items in the persisted registry.json.
MaxPersisted == 2
\* Positional command-line arguments.
MaxTargets == 1
\* Import paths of the file analysed by the classification specification.
MaxImports == 2

---------------------------------------------------------------------------
(* JavaScript string primitives.                                           *)

\* The characters in use, in UTF-16 code-unit order.
Alphabet ==
  << " ", "#", "-", ".", "/",
     "0", "1", "2", "3", "4", "5", "6", "7", "8", "9", "@",
     "A", "B", "C", "D", "E", "F", "G", "H", "I", "J", "K", "L", "M",
     "N", "O", "P", "Q", "R", "S", "T", "U", "V", "W", "X", "Y", "Z", "_",
     "a", "b", "c", "d", "e", "f", "g", "h", "i", "j", "k", "l", "m",
     "n", "o", "p", "q", "r", "s", "t", "u", "v", "w", "x", "y", "z", "~" >>

UpperChars ==
  << "A", "B", "C", "D", "E", "F", "G", "H", "I", "J", "K", "L", "M",
     "N", "O", "P", "Q", "R", "S", "T", "U", "V", "W", "X", "Y", "Z" >>

LowerChars ==
  << "a", "b", "c", "d", "e", "f", "g", "h", "i", "j", "k", "l", "m",
     "n", "o", "p", "q", "r", "s", "t", "u", "v", "w", "x", "y", "z" >>

DigitChars == { "0", "1", "2", "3", "4", "5", "6", "7", "8", "9" }

Range(f) == { f[i] : i \in DOMAIN f }

IsUpper(c) == c \in Range(UpperChars)
IsLower(c) == c \in Range(LowerChars)
IsDigit(c) == c \in DigitChars

CodeUnit(c) == CHOOSE i \in DOMAIN Alphabet : Alphabet[i] = c

ToLowerChar(c) ==
  IF IsUpper(c)
    THEN LowerChars[CHOOSE i \in DOMAIN UpperChars : UpperChars[i] = c]
    ELSE c

ToUpperChar(c) ==
  IF IsLower(c)
    THEN UpperChars[CHOOSE i \in DOMAIN LowerChars : LowerChars[i] = c]
    ELSE c

\* String.prototype.toLowerCase
ToLowerCase(s) == [i \in DOMAIN s |-> ToLowerChar(s[i])]

\* String.prototype.startsWith / endsWith / slice(n)
StartsWith(s, p) == Len(p) <= Len(s) /\ SubSeq(s, 1, Len(p)) = p
EndsWith(s, p) == Len(p) <= Len(s) /\ SubSeq(s, Len(s) - Len(p) + 1, Len(s)) = p
SliceFrom(s, n) == SubSeq(s, n + 1, Len(s))

\* The comparison of the default Array.prototype.sort: by code units.
RECURSIVE StrLess(_, _)
StrLess(a, b) ==
  IF b = << >> THEN FALSE
  ELSE IF a = << >> THEN TRUE
  ELSE IF a[1] = b[1] THEN StrLess(Tail(a), Tail(b))
  ELSE CodeUnit(a[1]) < CodeUnit(b[1])

\* [...set].sort(): the elements of a Set of strings in ascending order.
RECURSIVE SortStrings(_)
SortStrings(S) ==
  IF S = {} THEN << >>
  ELSE LET m == CHOOSE x \in S : \A y \in S \ {x} : StrLess(x, y)
       IN  << m >> \o SortStrings(S \ {m})

\* String.prototype.split on a set of one-character separators.
RECURSIVE SplitOn(_, _)
SplitOn(s, seps) ==
  IF \A i \in DOMAIN s : s[i] \notin seps THEN << s >>
  ELSE LET k == CHOOSE i \in DOMAIN s :
                  s[i] \in seps /\ \A j \in 1..(i - 1) : s[j] \notin seps
       IN  << SubSeq(s, 1, k - 1) >> \o SplitOn(SubSeq(s, k + 1, Len(s)), seps)

\* Array.prototype.join
RECURSIVE Join(_, _)
Join(parts, sep) ==
  IF parts = << >> THEN << >>
  ELSE IF Len(parts) = 1 THEN parts[1]
  ELSE parts[1] \o sep \o Join(Tail(parts), sep)

\* path.basename(p) and path.extname(p)
Basename(p) == LET parts == SplitOn(p, {"/"}) IN parts[Len(parts)]

Extname(p) ==
  LET b == Basename(p)
      dots == { i \in DOMAIN b : b[i] = "." }
  IN  IF dots = {} THEN << >>
      ELSE LET k == CHOOSE i \in dots : \A j \in dots : j <= i
           IN  IF k = 1 THEN << >> ELSE SubSeq(b, k, Len(b))

\* path.basename(p, ext)
BasenameNoExt(p) ==
  LET b == Basename(p)
      e == Extname(p)
  IN  IF e # << >> /\ e # b /\ EndsWith(b, e)
        THEN SubSeq(b, 1, Len(b) - Len(e))
        ELSE b

---------------------------------------------------------------------------
(* remeda's toKebabCase: the words of the name, joined by "-", lowercased. *)

WordSeparators == { "-", "_", " " }

\* One step of the word splitter: `st` is [done, word], c the next character.
WordsStep(st, c) ==
  LET word == st.word
      n == Len(word)
      flushed == IF n > 0 THEN Append(st.done, word) ELSE st.done
      lastIsLower == n > 0 /\ IsLower(word[n])
      lastTwoUpper == n > 1 /\ IsUpper(word[n]) /\ IsUpper(word[n - 1])
      lastIsDigit == n > 0 /\ IsDigit(word[n])
  IN  IF c \in WordSeparators THEN [done |-> flushed, word |-> << >>]
      ELSE IF lastIsLower /\ IsUpper(c)
        THEN [done |-> flushed, word |-> << c >>]
      ELSE IF lastTwoUpper /\ IsLower(c)
        THEN [done |-> Append(st.done, SubSeq(word, 1, n - 1)),
              word |-> << word[n], c >>]
      ELSE IF lastIsDigit # IsDigit(c)
        THEN [done |-> flushed, word |-> << c >>]
      ELSE [done |-> st.done, word |-> Append(word, c)]

RECURSIVE WordsFrom(_, _)
WordsFrom(st, s) ==
  IF s = << >>
    THEN IF Len(st.word) > 0 THEN Append(st.done, st.word) ELSE st.done
    ELSE WordsFrom(WordsStep(st, s[1]), Tail(s))

Words(s) == WordsFrom([done |-> << >>, word |-> << >>], s)

toKebabCase(s) == ToLowerCase(Join(Words(s), << "-" >>))

---------------------------------------------------------------------------
(* Configuration.                                                          *)

REGISTRY_NAME == "my-registry"
REGISTRY_HOMEPAGE == "https://your-registry-url.com"
SCHEMA_URL == "https://ui.shadcn.com/schema/registry.json"

\* Object.keys(ENTITY_CATEGORIES), in insertion order.
CategoryNames ==
  << <<"c","o","m","p","o","n","e","n","t","s">>, <<"h","o","o","k","s">>, <<"l","i","b">>, <<"t","y","p","e","s">>, <<"s","t","y","l","e","s">> >>

ENTITY_CATEGORIES(c) ==
  CASE c = <<"c","o","m","p","o","n","e","n","t","s">> ->
         [itemType |-> "registry:component", fileType |-> "registry:component",
          targetDir |-> <<"c","o","m","p","o","n","e","n","t","s">>]
    [] c = <<"h","o","o","k","s">> ->
         [itemType |-> "registry:hook", fileType |-> "registry:hook",
          targetDir |-> <<"h","o","o","k","s">>]
    [] c = <<"l","i","b">> ->
         [itemType |-> "registry:lib", fileType |-> "registry:lib",
          targetDir |-> <<"l","i","b">>]
    [] c = <<"t","y","p","e","s">> ->
         [itemType |-> "registry:lib", fileType |-> "registry:lib",
          targetDir |-> <<"t","y","p","e","s">>]
    [] c = <<"s","t","y","l","e","s">> ->
         [itemType |-> "registry:component", fileType |-> "registry:style",
          targetDir |-> <<"s","t","y","l","e","s">>]

LOCAL_ALIASES == << <<"@","/">>, <<"~","/">>, <<"#">> >>

\* Each pattern is ^<prefix>(.+)$ ; the model keeps the literal prefix.
SHADCN_UI_PATTERNS ==
  << <<"@","/","c","o","m","p","o","n","e","n","t","s","/","u","i","/">>, <<"~","/","c","o","m","p","o","n","e","n","t","s","/","u","i","/">>, <<"c","o","m","p","o","n","e","n","t","s","/","u","i","/">> >>

\* Each pattern is \.<word>\.[tj]sx?$ ; the model keeps the word.
EXCLUDED_PATTERNS == << <<"s","t","o","r","i","e","s">>, <<"t","e","s","t">>, <<"s","p","e","c">> >>

SOURCE_EXTENSIONS == { <<".","t","s","x">>, <<".","t","s">>, <<".","j","s">>, <<".","j","s","x">> }

NODE_BUILTINS ==
  { <<"a","s","s","e","r","t">>, <<"b","u","f","f","e","r">>, <<"c","h","i","l","d","_","p","r","o","c","e","s","s">>, <<"c","l","u","s","t","e","r">>, <<"c","o","n","s","o","l","e">>, <<"c","o","n","s","t","a","n","t","s">>,
    <<"c","r","y","p","t","o">>, <<"d","g","r","a","m">>, <<"d","n","s">>, <<"d","o","m","a","i","n">>, <<"e","v","e","n","t","s">>, <<"f","s">>, <<"h","t","t","p">>, <<"h","t","t","p","2">>,
    <<"h","t","t","p","s">>, <<"m","o","d","u","l","e">>, <<"n","e","t">>, <<"o","s">>, <<"p","a","t","h">>, <<"p","e","r","f","_","h","o","o","k","s">>, <<"p","r","o","c","e","s","s">>,
    <<"p","u","n","y","c","o","d","e">>, <<"q","u","e","r","y","s","t","r","i","n","g">>, <<"r","e","a","d","l","i","n","e">>, <<"r","e","p","l">>, <<"s","t","r","e","a","m">>,
    <<"s","t","r","i","n","g","_","d","e","c","o","d","e","r">>, <<"t","i","m","e","r","s">>, <<"t","l","s">>, <<"t","r","a","c","e","_","e","v","e","n","t","s">>, <<"t","t","y">>, <<"u","r","l">>, <<"u","t","i","l">>,
    <<"v","8">>, <<"v","m">>, <<"w","o","r","k","e","r","_","t","h","r","e","a","d","s">>, <<"z","l","i","b">> }

\* The null of a `string | null` result: no string of characters equals it.
Null == << "null" >>

\* JavaScript truthiness of a `string | null` value.
Truthy(v) == v # Null /\ v # << >>

---------------------------------------------------------------------------
(* Import parsing and classification.                                      *)

\* A source text is modelled by the sequence of its statements, each
\* [kind, path]; the two regular expressions pick the quoted path of the
\* import / export-from statements and of the require() / import() calls.
ImportKinds == { "import", "export", "require", "dynamic" }

extractImportPaths(source) ==
  { source[i].path : i \in { j \in DOMAIN source : source[j].kind \in ImportKinds } }

toPackageName(importPath) ==
  LET parts == SplitOn(importPath, {"/"})
  IN  IF StartsWith(importPath, <<"@">>)
        THEN Join(SubSeq(parts, 1, IF Len(parts) < 2 THEN Len(parts) ELSE 2), <<"/">>)
        ELSE parts[1]

isLocalImport(importPath) ==
  \/ StartsWith(importPath, <<".">>)
  \/ \E i \in DOMAIN LOCAL_ALIASES : StartsWith(importPath, LOCAL_ALIASES[i])

\* importPath.match(/^<prefix>(.+)$/): the capture, or Null.
MatchPattern(prefix, importPath) ==
  IF StartsWith(importPath, prefix) /\ Len(importPath) > Len(prefix)
    THEN SliceFrom(importPath, Len(prefix))
    ELSE Null

extractShadcnComponent(importPath) ==
  LET hits == { i \in DOMAIN SHADCN_UI_PATTERNS :
                  MatchPattern(SHADCN_UI_PATTERNS[i], importPath) # Null }
  IN  IF hits = {} THEN Null
      ELSE MatchPattern(
             SHADCN_UI_PATTERNS[CHOOSE i \in hits : \A j \in hits : i <= j],
             importPath)

resolveRegistryDep(importPath, registryEntityMap) ==
  LET hits == { i \in DOMAIN LOCAL_ALIASES : StartsWith(importPath, LOCAL_ALIASES[i]) }
  IN  IF hits = {} THEN Null
      ELSE LET alias == LOCAL_ALIASES[CHOOSE i \in hits : \A j \in hits : i <= j]
               rest == SliceFrom(importPath, Len(alias))
               parts == SplitOn(rest, {"/"})
               key == parts[1] \o <<"/">> \o parts[2]
           IN  IF rest \in DOMAIN registryEntityMap THEN registryEntityMap[rest]
               ELSE IF Len(parts) >= 2 /\ key \in DOMAIN registryEntityMap
                 THEN registryEntityMap[key]
               ELSE Null

NoDeps == [npm |-> {}, registry |-> {}, unresolved |-> {}]

\* The body of analyzeFile's loop for one import path: what it adds to the
\* three sets.
analyzeImportSkipLocal(importPath, packageMap, registryEntityMap) ==
  LET shadcnName == extractShadcnComponent(importPath)
      pkgName == toPackageName(importPath)
  IN  IF isLocalImport(importPath) THEN NoDeps
      ELSE IF Truthy(shadcnName)
        THEN [NoDeps EXCEPT !.registry = { shadcnName }]
      ELSE IF pkgName \in NODE_BUILTINS THEN NoDeps
      ELSE IF pkgName \in DOMAIN packageMap
        THEN [NoDeps EXCEPT !.npm = { packageMap[pkgName] }]
      ELSE [NoDeps EXCEPT !.unresolved = { pkgName }]

analyzeImport(importPath, packageMap, registryEntityMap) ==
  LET shadcnName == extractShadcnComponent(importPath)
      registryDep == IF StartsWith(importPath, <<".">>) THEN Null
                     ELSE resolveRegistryDep(importPath, registryEntityMap)
      pkgName == toPackageName(importPath)
  IN  IF Truthy(shadcnName)
        THEN [NoDeps EXCEPT !.registry = { shadcnName }]
      ELSE IF Truthy(registryDep)
        THEN [NoDeps EXCEPT !.registry = { registryDep }]
      ELSE IF isLocalImport(importPath) THEN NoDeps
      ELSE IF pkgName \in NODE_BUILTINS THEN NoDeps
      ELSE IF pkgName \in DOMAIN packageMap
        THEN [NoDeps EXCEPT !.npm = { packageMap[pkgName] }]
      ELSE [NoDeps EXCEPT !.unresolved = { pkgName }]

analyzeFile(source, packageMap, registryEntityMap) ==
  LET paths == extractImportPaths(source)
      each(p) == analyzeImport(p, packageMap, registryEntityMap)
  IN  [npm |-> UNION { each(p).npm : p \in paths },
       registry |-> UNION { each(p).registry : p \in paths },
       unresolved |-> UNION { each(p).unresolved : p \in paths }]

---------------------------------------------------------------------------
(* File system helpers.                                                    *)

\* An entity directory is the sequence of its files as walkDir lists them,
\* sub-directories included, each [name, source]: the file's path relative
\* to the entity directory and its text.
entityDirPath(categoryName, entityName) ==
  <<"r","e","g","i","s","t","r","y","/">> \o categoryName \o <<"/">> \o entityName

walkDir(dirPath, files) ==
  [i \in DOMAIN files |-> dirPath \o <<"/">> \o files[i].name]

ScriptSuffixes == { <<".","t","s">>, <<".","t","s","x">>, <<".","j","s">>, <<".","j","s","x">> }

isExcluded(filePath) ==
  \E i \in DOMAIN EXCLUDED_PATTERNS : \E suffix \in ScriptSuffixes :
    EndsWith(filePath, <<".">> \o EXCLUDED_PATTERNS[i] \o suffix)

\* isSourceFile without the exclusion of story, test and spec files.
isSourceFileNoExclusion(filePath) ==
  Extname(filePath) \in SOURCE_EXTENSIONS \/ EndsWith(filePath, <<".","c","s","s">>)

isSourceFile(filePath) ==
  IF Extname(filePath) \notin SOURCE_EXTENSIONS /\ ~EndsWith(filePath, <<".","c","s","s">>)
    THEN FALSE
    ELSE ~isExcluded(filePath)

inferFileType(filePath, categoryDefault) ==
  LET base == ToLowerCase(BasenameNoExt(filePath))
  IN  IF EndsWith(filePath, <<".","c","s","s">>) THEN "registry:style"
      ELSE IF StartsWith(base, <<"u","s","e","-">>) \/ EndsWith(base, <<"-","h","o","o","k">>)
        THEN "registry:hook"
      ELSE IF base = <<"u","t","i","l","s">> \/ base = <<"h","e","l","p","e","r","s">> \/ base = <<"l","i","b">>
        THEN "registry:lib"
      ELSE categoryDefault

toTitle(name) ==
  LET ws == SplitOn(name, {"-", "_"})
      cap(w) == IF w = << >> THEN w ELSE << ToUpperChar(w[1]) >> \o Tail(w)
  IN  Join([i \in DOMAIN ws |-> cap(ws[i])], <<" ">>)

---------------------------------------------------------------------------
(* Process a single entity.                                                *)

\* processEntity's null result.
NoItem == [none |-> TRUE]

\* The catalog-dependency set after the self-reference removal.
removeSelfRaw(allRegistry, entityName) == allRegistry \ { entityName }

removeSelf(allRegistry, entityName) == allRegistry \ { toKebabCase(entityName) }

\* The optional array field of an item: set only when the Set is not empty.
depsFieldUnsorted(field, deps) ==
  IF deps = {} THEN << >>
  ELSE LET m == CHOOSE x \in deps : \A y \in deps \ {x} : StrLess(y, x)
       IN  field :> (<< m >> \o SortStrings(deps \ {m}))

depsField(field, deps) ==
  IF deps = {} THEN << >> ELSE field :> SortStrings(deps)

processEntity(categoryName, entityName, files, category, packageMap, registryEntityMap) ==
  LET entityDir == entityDirPath(categoryName, entityName)
      allFiles == [i \in DOMAIN files |->
                     [absPath |-> walkDir(entityDir, files)[i],
                      name |-> files[i].name,
                      source |-> files[i].source]]
      eligible(f) == isSourceFile(f.absPath)
      sourceFiles == SelectSeq(allFiles, eligible)
      parsed == { i \in DOMAIN sourceFiles : ~EndsWith(sourceFiles[i].absPath, <<".","c","s","s">>) }
      deps(i) == analyzeFile(sourceFiles[i].source, packageMap, registryEntityMap)
      allNpm == UNION { deps(i).npm : i \in parsed }
      allRegistry == removeSelf(UNION { deps(i).registry : i \in parsed }, entityName)
      registryFiles ==
        [i \in DOMAIN sourceFiles |->
           [path |-> <<"r","e","g","i","s","t","r","y","/">> \o categoryName \o <<"/">> \o entityName \o <<"/">>
                       \o Basename(sourceFiles[i].absPath),
            type |-> inferFileType(sourceFiles[i].absPath, category.fileType),
            target |-> category.targetDir \o <<"/">> \o entityName \o <<"/">>
                         \o Basename(sourceFiles[i].absPath)]]
  IN  IF Len(sourceFiles) = 0 THEN NoItem
      ELSE [name |-> toKebabCase(entityName),
            type |-> category.itemType,
            title |-> toTitle(entityName),
            files |-> registryFiles]
           @@ depsField("dependencies", allNpm)
           @@ depsField("registryDependencies", allRegistry)

\* The names processEntity reports as not found in package.json.
unknownPkgs(files, categoryName, entityName, packageMap, registryEntityMap) ==
  LET entityDir == entityDirPath(categoryName, entityName)
      parsed == { i \in DOMAIN files :
                    /\ isSourceFile(entityDir \o <<"/">> \o files[i].name)
                    /\ ~EndsWith(files[i].name, <<".","c","s","s">>) }
  IN  UNION { analyzeFile(files[i].source, packageMap, registryEntityMap).unresolved :
                i \in parsed }

\* The lines processEntity prints with console.warn.
processEntityWarnings(categoryName, entityName, files, packageMap, registryEntityMap) ==
  LET entityDir == entityDirPath(categoryName, entityName)
      sourceFiles == SelectSeq(walkDir(entityDir, files), isSourceFile)
      unknown == unknownPkgs(files, categoryName, entityName, packageMap,
                             registryEntityMap)
  IN  IF Len(sourceFiles) = 0
        THEN << [msg |-> "no source files",
                 category |-> categoryName, entity |-> entityName] >>
      ELSE IF unknown # {}
        THEN << [msg |-> "imports not found in package.json",
                 category |-> categoryName, entity |-> entityName] >>
      ELSE << >>

---------------------------------------------------------------------------
(* JavaScript Map: entries in insertion order.                             *)

MapHas(m, k) == \E i \in DOMAIN m : m[i].key = k

MapGet(m, k) == m[CHOOSE i \in DOMAIN m : m[i].key = k].value

MapSet(m, k, v) ==
  IF MapHas(m, k)
    THEN [i \in DOMAIN m |-> IF m[i].key = k THEN [key |-> k, value |-> v] ELSE m[i]]
    ELSE Append(m, [key |-> k, value |-> v])

MapValues(m) == [i \in DOMAIN m |-> m[i].value]

\* new Map(entries)
RECURSIVE MapFrom(_)
MapFrom(entries) ==
  IF entries = << >> THEN << >>
  ELSE LET n == Len(entries)
       IN  MapSet(MapFrom(SubSeq(entries, 1, n - 1)), entries[n].key, entries[n].value)

---------------------------------------------------------------------------
(* The inputs of a run: the command line and the files it reads.           *)

import(p) == [kind |-> "import", path |-> p]
require(p) == [kind |-> "require", path |-> p]
other == [kind |-> "other", path |-> <<"u","s","e"," ","c","l","i","e","n","t">>]

\* Directory names of entities; one is not in kebab case.
DirNames == { <<"c","a","r","d">>, <<"M","y","C","a","r","d">> }

\* Category directories that hold the entities of the explored trees.
TreeCategories == { <<"c","o","m","p","o","n","e","n","t","s">>, <<"h","o","o","k","s">> }

\* Contents of an entity directory, in the order readdirSync lists them:
\* sorted by name, a sub-directory's files at the place of its name.
FilesPlain ==
  << [name |-> <<"i","n","d","e","x",".","t","s","x">>,
      source |-> << other, import(<<"z","o","d">>), import(<<"r","e","a","c","t">>),
                    import(<<"@","/","c","o","m","p","o","n","e","n","t","s","/","u","i","/","i","n","p","u","t">>),
                    import(<<"@","/","c","o","m","p","o","n","e","n","t","s","/","c","a","r","d","/","h","e","l","p","e","r","s">>) >>] >>

FilesHook ==
  << [name |-> <<"s","t","y","l","e","s","/","c","a","r","d",".","c","s","s">>, source |-> << >>],
     [name |-> <<"u","s","e","-","c","a","r","d",".","t","s">>,
      source |-> << import(<<"@","/","h","o","o","k","s","/","M","y","C","a","r","d">>), require(<<"f","s">>),
                    import(<<".","/","l","o","c","a","l">>), import(<<"l","o","d","a","s","h","/","f","p">>) >>] >>

FilesOnlyTest ==
  << [name |-> <<"c","a","r","d",".","t","e","s","t",".","t","s","x">>, source |-> << import(<<"r","e","a","c","t">>) >>] >>

\* The contents explored for the entity directories of a category.
FilesNoSource ==
  << [name |-> <<"R","E","A","D","M","E",".","m","d">>, source |-> << other >>],
     [name |-> <<"c","a","r","d",".","s","p","e","c",".","j","s","x">>, source |-> << require(<<"z","o","d">>) >>],
     [name |-> <<"c","a","r","d",".","s","t","o","r","i","e","s",".","t","s">>, source |-> << import(<<"r","e","a","c","t">>) >>] >>

FileChoices(categoryName) ==
  IF categoryName = <<"h","o","o","k","s">>
    THEN { FilesHook, FilesOnlyTest, FilesNoSource }
    ELSE { FilesPlain, FilesOnlyTest }

\* package.json: absent, not parseable, or parsed.
PackageJsonOk ==
  [state |-> "ok",
   json |-> [dependencies |-> (<<"r","e","a","c","t">> :> <<"1","8",".","2",".","0">>) @@ (<<"z","o","d">> :> <<"3",".","2","2",".","0">>),
             devDependencies |-> (<<"z","o","d">> :> <<"3",".","2","3",".","1">>),
             peerDependencies |-> << >>]]

PackageJsonChoices ==
  { [state |-> "absent"], [state |-> "corrupt"], PackageJsonOk }

\* What an earlier run wrote for an entity whose files have changed since.
FilesOld ==
  << [name |-> <<"o","l","d",".","t","s","x">>, source |-> << import(<<"r","e","a","c","t">>) >>] >>

PackageMapOld == (<<"r","e","a","c","t">> :> <<"r","e","a","c","t","@","1","7",".","0",".","2">>)

ItemFromEarlierRun(categoryName, entityName) ==
  processEntity(categoryName, entityName, FilesOld,
                ENTITY_CATEGORIES(categoryName), PackageMapOld, << >>)

\* An item written by hand: no entity directory, arrays as the author left them.
ItemByHand ==
  [name |-> <<"l","e","g","a","c","y">>, type |-> "registry:ui", title |-> <<"L","e","g","a","c","y">>,
   dependencies |-> << <<"z","o","d","@","3",".","0",".","0">>, <<"r","e","a","c","t","@","1","8",".","0",".","0">> >>,
   registryDependencies |-> << >>,
   files |-> << >>]

PersistedItems ==
  << ItemFromEarlierRun(<<"c","o","m","p","o","n","e","n","t","s">>, <<"c","a","r","d">>),
     ItemFromEarlierRun(<<"c","o","m","p","o","n","e","n","t","s">>, <<"M","y","C","a","r","d">>),
     ItemByHand >>

\* All sequences of at most n elements of S.
RECURSIVE SeqsUpTo(_, _)
SeqsUpTo(S, n) ==
  IF n = 0 THEN { << >> }
  ELSE LET shorter == SeqsUpTo(S, n - 1)
       IN  shorter \cup { Append(s, x) : s \in shorter, x \in S }

\* The subsequences of at most n elements of the sequence `all`.
SubSeqsUpTo(all, n) ==
  LET nth(I, k) == CHOOSE i \in I : Cardinality({ j \in I : j < i }) = k - 1
  IN  { [k \in 1..Cardinality(I) |-> all[nth(I, k)]] :
          I \in { J \in SUBSET DOMAIN all : Cardinality(J) <= n } }

\* The top-level fields of a parsed registry.json other than `items`.
RegistryMetas ==
  { [schema |-> "https://example.com/other-schema.json",
     name |-> "acme", homepage |-> "https://acme.dev"],
    [schema |-> SCHEMA_URL, homepage |-> "https://acme.dev"] }

RegistryJsonChoices ==
  { [state |-> "absent"], [state |-> "corrupt"] }
  \cup { [state |-> "ok", json |-> meta @@ [items |-> items]] :
           meta \in RegistryMetas,
           items \in SubSeqsUpTo(PersistedItems, MaxPersisted) }

\* Positional arguments: bare names and category/entity selectors.
TargetChoices == << <<"c","a","r","d">>, <<"n","o","p","e">>, <<"h","o","o","k","s","/","M","y","C","a","r","d">> >>

\* Command lines that name an unknown target twice, or the directory ".".
EdgeArgs == { << <<"n","o","p","e">>, <<"n","o","p","e">> >>, << <<".">> >> }

ArgsChoices ==
  { flag \o positional :
      flag \in { << >>, << <<"-","-","n","o","-","o","v","e","r","r","i","d","e">> >> },
      positional \in SubSeqsUpTo(TargetChoices, MaxTargets) }
  \cup EdgeArgs

\* The trees under registry/: a function from <<category, directory>> to the
\* directory's files.
TreeChoices ==
  UNION { { t \in [S -> FileChoices(<<"c","o","m","p","o","n","e","n","t","s">>) \cup FileChoices(<<"h","o","o","k","s">>)] :
              \A d \in S : t[d] \in FileChoices(d[1]) } :
            S \in { T \in SUBSET (TreeCategories \X DirNames) :
                      Cardinality(T) <= MaxEntities } }

\* Directories under registry/ that hold no entity: a recognised category
\* and one that is not.
ExtraDirChoices == { { }, { <<"t","y","p","e","s">> }, { <<"d","o","c","s">> } }

---------------------------------------------------------------------------
(* The run: main().                                                        *)

VARIABLES
  args,              \* process.argv.slice(2)
  rootExists,        \* whether registry/ exists
  tree,              \* <<category, directory>> -> the files of the entity
  extraDirs,         \* other directories directly under registry/
  packageJson,       \* the package.json file
  registryJson,      \* the registry.json file
  pc,                \* the position of main()
  options,           \* parseArgs' result
  packageMap,
  registryEntityMap,
  existingRegistry,  \* loadExistingRegistry's result
  existingItemMap,
  updatedItemMap,
  summary,
  activeCategories,
  catIdx,            \* the category of the outer loop
  entityNames,       \* the entities of that category still to visit
  console,           \* the per-entity and diagnostic lines printed
  exitCode,          \* the process's exit code, -1 while it runs
  writes,            \* the number of writeFileSync calls made
  aTree,             \* classification alone: the entity directories on disk
  aEntity,           \* the <<category, directory>> being analysed
  aSource,           \* the text of its one file
  aPackageMap,       \* the package table
  aDeps,             \* analyzeFile's result for that file
  aItem,             \* processEntity's result for that entity
  apc                \* the position of the analysis

vars ==
  << args, rootExists, tree, extraDirs, packageJson, registryJson, pc, options,
     packageMap, registryEntityMap, existingRegistry, existingItemMap,
     updatedItemMap, summary, activeCategories, catIdx, entityNames, console,
     exitCode, writes, aTree, aEntity, aSource, aPackageMap, aDeps, aItem, apc >>

analysis == << aTree, aEntity, aSource, aPackageMap, aDeps, aItem, apc >>

inputs == << args, rootExists, tree, extraDirs, packageJson >>

\* fs.existsSync(path.join(REGISTRY_DIR, category, name)): path.join
\* normalises an empty name and "." to the category directory, and ".." to
\* registry/ itself.
entityDirExists(category, name) ==
  IF name \in { << >>, <<".">> }
    THEN rootExists /\ category \in { e[1] : e \in DOMAIN tree } \cup extraDirs
  ELSE IF name = <<".",".">> THEN rootExists
  ELSE << category, name >> \in DOMAIN tree

\* The directory names readdirSync lists under registry/<category>.
entityDirsOf(category) == { e[2] : e \in { d \in DOMAIN tree : d[1] = category } }

\* The directory names readdirSync lists under registry/.
presentDirs == { e[1] : e \in DOMAIN tree } \cup extraDirs

\* All orders of the elements of a set: readdirSync promises none.
Orders(S) == { s \in SeqsUpTo(S, Cardinality(S)) : Range(s) = S }

parseArgs(argv) ==
  LET isPositional(a) == ~StartsWith(a, <<"-","-">>)
      positional == SelectSeq(argv, isPositional)
      found(t) == { c \in Range(CategoryNames) : entityDirExists(c, t) }
      isNotFound(t) == "/" \notin Range(t) /\ found(t) = {}
      expand(t) == IF "/" \in Range(t) THEN { t }
                   ELSE { c \o <<"/">> \o t : c \in found(t) }
  IN  [noOverride |-> <<"-","-","n","o","-","o","v","e","r","r","i","d","e">> \in Range(argv),
       targets |-> UNION { expand(positional[i]) : i \in DOMAIN positional },
       notFound |-> SelectSeq(positional, isNotFound)]

\* loadExistingRegistry: the parsed document, or Null.
NullRegistry == [null |-> TRUE]

loadExistingRegistry(file) ==
  IF file.state = "ok" THEN file.json ELSE NullRegistry

buildRegistryEntityMap(t) ==
  [k \in { d[1] \o <<"/">> \o d[2] :
             d \in { e \in DOMAIN t : e[1] \in Range(CategoryNames) } } |->
     toKebabCase((CHOOSE d \in DOMAIN t : d[1] \o <<"/">> \o d[2] = k)[2])]

\* buildPackageMap(loadPackageJson()): later tables override earlier ones.
buildPackageMap(file) ==
  IF file.state # "ok" THEN << >>
  ELSE LET merged == file.json.peerDependencies @@ file.json.devDependencies
                       @@ file.json.dependencies
       IN  [n \in DOMAIN merged |-> n \o <<"@">> \o merged[n]]

\* new Map(items.map((item) => [item.name, item]))
itemMapOf(registry) ==
  IF registry = NullRegistry THEN << >>
  ELSE MapFrom([i \in DOMAIN registry.items |->
                  [key |-> registry.items[i].name, value |-> registry.items[i]]])

\* The filter main() applies to a category's directories.
isTargeted(targets, categoryName, entityName) ==
  \/ targets = {}
  \/ (categoryName \o <<"/">> \o entityName) \in targets
  \/ entityName \in targets

\* The analysis variables while main() runs.
AnalysisIdle ==
  /\ aTree = << >>
  /\ aEntity = << >>
  /\ aSource = << >>
  /\ aPackageMap = << >>
  /\ aDeps = NoDeps
  /\ aItem = NoItem
  /\ apc = "idle"

Init ==
  /\ AnalysisIdle
  /\ args \in ArgsChoices
  /\ rootExists \in BOOLEAN
  /\ tree \in TreeChoices
  /\ extraDirs \in ExtraDirChoices
  /\ ~rootExists => tree = << >>
  /\ tree # << >> => extraDirs = {}
  /\ packageJson \in PackageJsonChoices
  /\ registryJson \in RegistryJsonChoices
  /\ pc = "parseArgs"
  /\ options = [noOverride |-> FALSE, targets |-> {}]
  /\ packageMap = << >>
  /\ registryEntityMap = << >>
  /\ existingRegistry = NullRegistry
  /\ existingItemMap = << >>
  /\ updatedItemMap = << >>
  /\ summary = [added |-> 0, updated |-> 0, skipped |-> 0]
  /\ activeCategories = << >>
  /\ catIdx = 0
  /\ entityNames = << >>
  /\ console = << >>
  /\ exitCode = -1
  /\ writes = 0

\* Start without the exit on a missing registry/ directory.
StartNoRootCheck ==
  /\ pc = "parseArgs"
  /\ LET parsed == parseArgs(args)
         warned == [i \in DOMAIN parsed.notFound |->
                      [msg |-> "target not found"]]
     IN  /\ options' = [noOverride |-> parsed.noOverride, targets |-> parsed.targets]
         /\ console' = console \o warned
  /\ pc' = "load"
  /\ UNCHANGED << analysis, inputs, registryJson, packageMap, registryEntityMap,
                  existingRegistry, existingItemMap, updatedItemMap, summary,
                  activeCategories, catIdx, entityNames, exitCode, writes >>

\* main(): parseArgs, then the check that registry/ exists.
Start ==
  /\ pc = "parseArgs"
  /\ LET parsed == parseArgs(args)
         warned == [i \in DOMAIN parsed.notFound |->
                      [msg |-> "target not found"]]
     IN  /\ options' = [noOverride |-> parsed.noOverride, targets |-> parsed.targets]
         /\ console' = console \o warned
              \o (IF rootExists THEN << >>
                    ELSE << [msg |-> "registry directory not found"] >>)
  /\ IF rootExists
       THEN pc' = "load" /\ exitCode' = exitCode
       ELSE pc' = "exited" /\ exitCode' = 1
  /\ UNCHANGED << analysis, inputs, registryJson, packageMap, registryEntityMap,
                  existingRegistry, existingItemMap, updatedItemMap, summary,
                  activeCategories, catIdx, entityNames, writes >>

\* main(): package.json cannot be parsed: JSON.parse throws, nothing catches.
LoadThrows ==
  /\ pc = "load"
  /\ packageJson.state = "corrupt"
  /\ pc' = "exited"
  /\ exitCode' = 1
  /\ UNCHANGED << analysis, inputs, registryJson, options, packageMap, registryEntityMap,
                  existingRegistry, existingItemMap, updatedItemMap, summary,
                  activeCategories, catIdx, entityNames, console, writes >>

\* main(): the package map, the entity map, the existing registry, and the
\* active categories; with none of them the process exits with code 0.
Load ==
  /\ pc = "load"
  /\ packageJson.state # "corrupt"
  /\ packageMap' = buildPackageMap(packageJson)
  /\ registryEntityMap' = buildRegistryEntityMap(tree)
  /\ existingRegistry' = loadExistingRegistry(registryJson)
  /\ existingItemMap' = itemMapOf(existingRegistry')
  /\ LET isPresent(c) == c \in presentDirs
         active == SelectSeq(CategoryNames, isPresent)
     IN  /\ activeCategories' = active
         /\ IF Len(active) = 0
              THEN /\ pc' = "exited"
                   /\ exitCode' = 0
                   /\ updatedItemMap' = updatedItemMap
              ELSE /\ pc' = "category"
                   /\ exitCode' = exitCode
                   /\ updatedItemMap' = existingItemMap'
  /\ catIdx' = 1
  /\ console' = console
       \o (IF packageJson.state = "absent"
             THEN << [msg |-> "no package.json"] >> ELSE << >>)
       \o (IF registryJson.state = "corrupt"
             THEN << [msg |-> "registry.json could not be parsed"] >> ELSE << >>)
       \o (IF Len(activeCategories') = 0
             THEN << [msg |-> "no recognised category directories"] >> ELSE << >>)
  /\ UNCHANGED << analysis, inputs, registryJson, options, summary, entityNames, writes >>

\* The outer loop: list the targeted entity directories of the next category.
EnterCategory ==
  /\ pc = "category"
  /\ catIdx <= Len(activeCategories)
  /\ LET categoryName == activeCategories[catIdx]
         names == { n \in entityDirsOf(categoryName) :
                      isTargeted(options.targets, categoryName, n) }
     IN  \E listed \in Orders(names) :
           /\ entityNames' = listed
           /\ IF Len(listed) = 0
                THEN catIdx' = catIdx + 1 /\ pc' = "category"
                ELSE catIdx' = catIdx /\ pc' = "entity"
  /\ UNCHANGED << analysis, inputs, registryJson, options, packageMap, registryEntityMap,
                  existingRegistry, existingItemMap, updatedItemMap, summary,
                  activeCategories, console, exitCode, writes >>

\* The position after one entity of the inner loop.
AfterEntity ==
  /\ entityNames' = Tail(entityNames)
  /\ IF Len(entityNames) = 1
       THEN catIdx' = catIdx + 1 /\ pc' = "category"
       ELSE catIdx' = catIdx /\ pc' = "entity"

\* The inner loop, --no-override and the item exists: skipped.
SkipExisting ==
  /\ pc = "entity"
  /\ LET categoryName == activeCategories[catIdx]
         entityName == Head(entityNames)
         alreadyExists == MapHas(existingItemMap, entityName)
     IN  /\ options.noOverride /\ alreadyExists
         /\ summary' = [summary EXCEPT !.skipped = @ + 1]
         /\ console' = Append(console, [msg |-> "skipped",
                                         category |-> categoryName,
                                         entity |-> entityName])
  /\ AfterEntity
  /\ UNCHANGED << analysis, inputs, registryJson, options, packageMap, registryEntityMap,
                  existingRegistry, existingItemMap, updatedItemMap,
                  activeCategories, exitCode, writes >>

\* The inner loop: processEntity, and the merge of its item.
ProcessOne ==
  /\ pc = "entity"
  /\ LET categoryName == activeCategories[catIdx]
         entityName == Head(entityNames)
         alreadyExists == MapHas(existingItemMap, entityName)
         files == tree[<< categoryName, entityName >>]
         item == processEntity(categoryName, entityName, files,
                               ENTITY_CATEGORIES(categoryName), packageMap,
                               registryEntityMap)
         warned == processEntityWarnings(categoryName, entityName, files,
                                         packageMap, registryEntityMap)
     IN  /\ ~(options.noOverride /\ alreadyExists)
         /\ IF item = NoItem
              THEN /\ console' = console \o warned
                   /\ UNCHANGED << updatedItemMap, summary >>
              ELSE /\ updatedItemMap' = MapSet(updatedItemMap, entityName, item)
                   /\ console' = console \o warned \o
                        << [msg |-> IF alreadyExists THEN "updated" ELSE "added",
                            category |-> categoryName, entity |-> entityName] >>
                   /\ summary' = IF alreadyExists
                                   THEN [summary EXCEPT !.updated = @ + 1]
                                   ELSE [summary EXCEPT !.added = @ + 1]
  /\ AfterEntity
  /\ UNCHANGED << analysis, inputs, registryJson, options, packageMap, registryEntityMap,
                  existingRegistry, existingItemMap, activeCategories, exitCode,
                  writes >>

\* registryOf with the name always the default.
registryOfDefaultName(existing, itemMap) ==
  [schema |-> SCHEMA_URL,
   name |-> REGISTRY_NAME,
   homepage |-> IF existing # NullRegistry /\ "homepage" \in DOMAIN existing
                  THEN existing.homepage ELSE REGISTRY_HOMEPAGE,
   items |-> MapValues(itemMap)]

\* The document main() builds after the loops.
registryOf(existing, itemMap) ==
  [schema |-> SCHEMA_URL,
   name |-> IF existing # NullRegistry /\ "name" \in DOMAIN existing
              THEN existing.name ELSE REGISTRY_NAME,
   homepage |-> IF existing # NullRegistry /\ "homepage" \in DOMAIN existing
                  THEN existing.homepage ELSE REGISTRY_HOMEPAGE,
   items |-> MapValues(itemMap)]

\* main(): writeFileSync, and the return.
WriteRegistry ==
  /\ pc = "category"
  /\ catIdx > Len(activeCategories)
  /\ registryJson' = [state |-> "ok",
                      json |-> registryOf(existingRegistry, updatedItemMap)]
  /\ writes' = writes + 1
  /\ pc' = "done"
  /\ exitCode' = 0
  /\ UNCHANGED << analysis, inputs, options, packageMap, registryEntityMap,
                  existingRegistry, existingItemMap, updatedItemMap, summary,
                  activeCategories, catIdx, entityNames, console >>

Next ==
  \/ Start
  \/ LoadThrows
  \/ Load
  \/ EnterCategory
  \/ SkipExisting
  \/ ProcessOne
  \/ WriteRegistry

Spec == Init /\ [][Next]_vars

---------------------------------------------------------------------------
(* The classification alone: analyzeFile on one file, then processEntity   *)
(* on the entity that holds it.                                            *)

\* Import paths: UI-component paths under each pattern (one that is also an
\* entity of the index, one whose capture is the entity's own name), alias
\* paths into entities (exact, deeper, of one segment, into a directory
\* whose kebab-cased name is empty), a relative path, a builtin and packages.
ImportPathChoices ==
  { <<"@","/","c","o","m","p","o","n","e","n","t","s","/","u","i","/","i","n","p","u","t">>, <<"~","/","c","o","m","p","o","n","e","n","t","s","/","u","i","/","m","y","-","c","a","r","d">>, <<"c","o","m","p","o","n","e","n","t","s","/","u","i","/","c","a","r","d">>,
    <<"@","/","c","o","m","p","o","n","e","n","t","s","/","M","y","C","a","r","d","/","h","e","l","p","e","r","s">>, <<"@","/","h","o","o","k","s","/","c","a","r","d">>, <<"#","l","i","b","/","n","o","n","e">>, <<"~","/","c","a","r","d">>,
    <<"@","/","c","o","m","p","o","n","e","n","t","s","/","_">>, <<".","/","c","a","r","d">>, <<"f","s">>, <<"r","e","a","c","t","/","j","s","x","-","r","u","n","t","i","m","e">>, <<"@","s","c","o","p","e","/","p","k","g","/","s","u","b">> }

\* Package tables: one names the packages a UI-component path would derive,
\* and a package called like a builtin.
PackageMapChoices ==
  { << >>,
    (<<"r","e","a","c","t">> :> <<"r","e","a","c","t","@","1","8",".","2",".","0">>) @@ (<<"@","/","c","o","m","p","o","n","e","n","t","s">> :> <<"@","/","c","o","m","p","o","n","e","n","t","s","@","1",".","0",".","0">>)
      @@ (<<"c","o","m","p","o","n","e","n","t","s">> :> <<"c","o","m","p","o","n","e","n","t","s","@","2",".","0",".","0">>) @@ (<<"~">> :> <<"~","@","0",".","0",".","1">>)
      @@ (<<"f","s">> :> <<"f","s","@","0",".","0",".","1">>) }

\* Entity directories: one tree holds components/ui, so that a UI-component
\* path also resolves in the Registry Entity Index; one holds a directory
\* named by a separator alone, whose kebab-cased name is the empty string.
AnalysisDirChoices ==
  { { << <<"c","o","m","p","o","n","e","n","t","s">>, <<"c","a","r","d">> >>, << <<"c","o","m","p","o","n","e","n","t","s">>, <<"M","y","C","a","r","d">> >>, << <<"h","o","o","k","s">>, <<"c","a","r","d">> >> },
    { << <<"c","o","m","p","o","n","e","n","t","s">>, <<"c","a","r","d">> >>, << <<"c","o","m","p","o","n","e","n","t","s">>, <<"M","y","C","a","r","d">> >>, << <<"h","o","o","k","s">>, <<"c","a","r","d">> >>,
      << <<"c","o","m","p","o","n","e","n","t","s">>, <<"u","i">> >> },
    { << <<"c","o","m","p","o","n","e","n","t","s">>, <<"c","a","r","d">> >>, << <<"c","o","m","p","o","n","e","n","t","s">>, <<"M","y","C","a","r","d">> >>, << <<"h","o","o","k","s">>, <<"c","a","r","d">> >>,
      << <<"c","o","m","p","o","n","e","n","t","s">>, <<"_">> >> } }

AnalysisEntities ==
  { << <<"c","o","m","p","o","n","e","n","t","s">>, <<"c","a","r","d">> >>, << <<"c","o","m","p","o","n","e","n","t","s">>, <<"M","y","C","a","r","d">> >>, << <<"h","o","o","k","s">>, <<"c","a","r","d">> >> }

\* main()'s variables while the classification alone runs.
MainIdle ==
  /\ args = << >>
  /\ rootExists = FALSE
  /\ tree = << >>
  /\ extraDirs = {}
  /\ packageJson = [state |-> "absent"]
  /\ registryJson = [state |-> "absent"]
  /\ pc = "idle"
  /\ options = [noOverride |-> FALSE, targets |-> {}]
  /\ packageMap = << >>
  /\ registryEntityMap = << >>
  /\ existingRegistry = NullRegistry
  /\ existingItemMap = << >>
  /\ updatedItemMap = << >>
  /\ summary = [added |-> 0, updated |-> 0, skipped |-> 0]
  /\ activeCategories = << >>
  /\ catIdx = 0
  /\ entityNames = << >>
  /\ console = << >>
  /\ exitCode = -1
  /\ writes = 0

\* main()'s variables but the console.
mainQuiet ==
  << args, rootExists, tree, extraDirs, packageJson, registryJson, pc, options,
     packageMap, registryEntityMap, existingRegistry, existingItemMap,
     updatedItemMap, summary, activeCategories, catIdx, entityNames,
     exitCode, writes >>

mainVars == << mainQuiet, console >>

InitClassify ==
  /\ MainIdle
  /\ aTree \in { [d \in S |-> << >>] : S \in AnalysisDirChoices }
  /\ aEntity \in AnalysisEntities
  /\ aSource \in { [i \in DOMAIN ps |-> import(ps[i])] :
                     ps \in SeqsUpTo(ImportPathChoices, MaxImports) }
  /\ aPackageMap \in PackageMapChoices
  /\ aDeps = NoDeps
  /\ aItem = NoItem
  /\ apc = "file"

\* analyzeFile on the file's text.
AnalyzeOneFile ==
  /\ apc = "file"
  /\ aDeps' = analyzeFile(aSource, aPackageMap, buildRegistryEntityMap(aTree))
  /\ apc' = "entity"
  /\ UNCHANGED << mainVars, aTree, aEntity, aSource, aPackageMap, aItem >>

\* processEntity on the entity whose one file holds that text: the item it
\* returns and the lines it prints.
BuildItem ==
  /\ apc = "entity"
  /\ LET files == << [name |-> <<"i","n","d","e","x",".","t","s","x">>, source |-> aSource] >>
         index == buildRegistryEntityMap(aTree)
     IN  /\ aItem' = processEntity(aEntity[1], aEntity[2], files,
                                   ENTITY_CATEGORIES(aEntity[1]), aPackageMap, index)
         /\ console' = console \o processEntityWarnings(aEntity[1], aEntity[2], files,
                                                       aPackageMap, index)
  /\ apc' = "done"
  /\ UNCHANGED << mainQuiet, aTree, aEntity, aSource, aPackageMap, aDeps >>

NextClassify ==
  \/ AnalyzeOneFile
  \/ BuildItem

SpecClassify == InitClassify /\ [][NextClassify]_vars

---------------------------------------------------------------------------
(* What the properties below speak of.                                     *)

\* The items of the registry.json the run has written.
writtenItems == registryJson.json.items

\* The items of the registry.json the run has read.
persistedItems ==
  IF existingRegistry = NullRegistry THEN << >> ELSE existingRegistry.items

\* The <<category, directory>> of the console lines with one of the messages.
Logged(msgs) ==
  { << console[i].category, console[i].entity >> :
      i \in { j \in DOMAIN console : console[j].msg \in msgs } }

\* The entities whose item the run merged, those it handed to processEntity,
\* and those it reported as skipped.
mergedEntities == Logged({ "added", "updated" })
reprocessedEntities == Logged({ "added", "updated", "no source files" })
skippedEntities == Logged({ "skipped" })

\* The item the run computes for the entity directory d.
freshItem(d) ==
  processEntity(d[1], d[2], tree[d], ENTITY_CATEGORIES(d[1]), packageMap,
                registryEntityMap)

\* The positions of the items of that name.
ItemsNamed(items, n) == { i \in DOMAIN items : items[i].name = n }

\* The entity directory an item describes: registry/<category>/<directory>/
\* of its first file; << >> for an item without files.
OwnerOf(item) ==
  IF item.files = << >> THEN << >>
  ELSE LET parts == SplitOn(item.files[1].path, {"/"})
       IN  << parts[2], parts[3] >>

\* The positional arguments of the command line.
selectors == LET isPositional(a) == ~StartsWith(a, <<"-","-">>) IN SelectSeq(args, isPositional)

\* A bare selector that names no entity directory of any category.
IsUnknownBare(t) ==
  /\ "/" \notin Range(t)
  /\ \A c \in Range(CategoryNames) : << c, t >> \notin DOMAIN tree

---------------------------------------------------------------------------
(* Properties of the run.                                                  *)

\* C1: with --no-override, every visited entity directory whose kebab-cased
\* name is the name of a persisted item is not reprocessed, is counted as
\* skipped, and the written manifest holds that persisted item unchanged and
\* no second item of that name, whatever the case of the directory name.
C1_SkipExistingKeepsPersisted ==
  (pc = "done" /\ options.noOverride) =>
    \A d \in DOMAIN tree :
      LET n == toKebabCase(d[2])
      IN  (isTargeted(options.targets, d[1], d[2]) /\ MapHas(existingItemMap, n)) =>
            /\ d \notin reprocessedEntities
            /\ d \in skippedEntities
            /\ summary.skipped >= 1
            /\ \E i \in DOMAIN writtenItems :
                 /\ ItemsNamed(writtenItems, n) = { i }
                 /\ writtenItems[i] = MapGet(existingItemMap, n)

\* C2: without --no-override, when the run merges the item of an entity whose
\* kebab-cased name is the name of a persisted item, the written manifest
\* holds exactly one item of that name, and it is the freshly computed one.
C2_MergeReplacesRecord ==
  (pc = "done" /\ ~options.noOverride) =>
    \A d \in mergedEntities :
      LET n == toKebabCase(d[2])
      IN  MapHas(existingItemMap, n) =>
            \E i \in DOMAIN writtenItems :
              /\ ItemsNamed(writtenItems, n) = { i }
              /\ writtenItems[i] = freshItem(d)

\* C3: with selectors given, only entities a selector names are processed;
\* when every selector is a bare name of no entity directory, no entity is
\* reprocessed and the written items are the persisted ones.
C3_UnknownSelectorsProcessNothing ==
  (pc = "done" /\ selectors # << >>) =>
    /\ \A d \in reprocessedEntities :
         \E i \in DOMAIN selectors :
           selectors[i] = d[1] \o <<"/">> \o d[2] \/ selectors[i] = d[2]
    /\ (\A i \in DOMAIN selectors : IsUnknownBare(selectors[i])) =>
         /\ reprocessedEntities = {}
         /\ writtenItems = MapValues(existingItemMap)

\* C4: every persisted item whose entity the run does not merge (not
\* targeted, skipped as existing, or without eligible files) is in the
\* written manifest exactly as it was persisted.
C4_UntouchedItemsPassThrough ==
  pc = "done" =>
    \A i \in DOMAIN persistedItems :
      OwnerOf(persistedItems[i]) \notin mergedEntities =>
        persistedItems[i] \in Range(writtenItems)

\* C5: two entities of different categories with the same directory name,
\* both merged in one run, each have their own item in the written manifest.
C5_SameNameEntitiesStayDistinct ==
  pc = "done" =>
    \A d1, d2 \in mergedEntities :
      (d1[2] = d2[2] /\ d1[1] # d2[1]) =>
        \E i, j \in DOMAIN writtenItems :
          /\ i # j
          /\ writtenItems[i] = freshItem(d1)
          /\ writtenItems[j] = freshItem(d2)

\* C6 as stated: a run ends having written the manifest once with a zero
\* exit code, or with a non-zero exit code having written nothing.
C6_EndsWrittenOrFailed ==
  pc \in { "done", "exited" } =>
    \/ exitCode = 0 /\ writes = 1
    \/ exitCode # 0 /\ writes = 0

\* The run stands at a statement of main() and its next step is defined: the
\* guards of the actions, position by position.
CanStep ==
  \/ pc = "parseArgs"
  \/ pc = "load"
  \/ pc = "category" /\ catIdx \in 1..(Len(activeCategories) + 1)
  \/ /\ pc = "entity"
     /\ catIdx \in DOMAIN activeCategories
     /\ entityNames # << >>
     /\ << activeCategories[catIdx], Head(entityNames) >> \in DOMAIN tree

\* C6 as amended: a run ends in one of three ways: written once, as its last
\* step, with exit code 0; aborted with exit code 1 and nothing written
\* (registry/ missing, package.json unreadable); or ended with exit code 0
\* and nothing written because registry/ holds no configured category.
\* Nothing else ends a run, and a run that has not ended can take a step.
C6_RunEndings ==
  /\ writes \in { 0, 1 }
  /\ writes = 1 <=> pc = "done"
  /\ pc = "done" =>
       /\ exitCode = 0
       /\ registryJson.state = "ok"
  /\ pc = "exited" =>
       \/ exitCode = 1 /\ (~rootExists \/ packageJson.state = "corrupt")
       \/ /\ exitCode = 0
          /\ rootExists
          /\ \A c \in Range(CategoryNames) : c \notin presentDirs
  /\ pc \notin { "done", "exited" } => exitCode = -1 /\ CanStep

\* A run that met every recoverable condition and wrote the manifest.
C6_Witness ==
  /\ pc = "done"
  /\ writes = 1
  /\ \A m \in { "target not found", "registry.json could not be parsed",
                "no source files", "imports not found in package.json" } :
       \E i \in DOMAIN console : console[i].msg = m

\* C7 as stated: every top-level field of the written manifest that the
\* persisted manifest carries equals it; without a parseable persisted
\* manifest the three fields are the defaults.
C7_MetadataFromPersisted ==
  pc = "done" =>
    LET w == registryJson.json
    IN  IF existingRegistry # NullRegistry
          THEN \A f \in { "schema", "name", "homepage" } \cap DOMAIN existingRegistry :
                 w[f] = existingRegistry[f]
          ELSE /\ w.schema = SCHEMA_URL
               /\ w.name = REGISTRY_NAME
               /\ w.homepage = REGISTRY_HOMEPAGE

\* C7 as amended: the written schema identifier is always the fixed URL; the
\* name and the homepage are those of the parseable persisted manifest when
\* it carries them, and the defaults otherwise.
C7_NameAndHomepageFromPersisted ==
  pc = "done" =>
    LET w == registryJson.json
        carried(f) == existingRegistry # NullRegistry /\ f \in DOMAIN existingRegistry
    IN  /\ w.schema = SCHEMA_URL
        /\ w.name = IF carried("name") THEN existingRegistry.name ELSE REGISTRY_NAME
        /\ w.homepage = IF carried("homepage") THEN existingRegistry.homepage
                        ELSE REGISTRY_HOMEPAGE

\* A written manifest whose persisted form had another schema and a name.
C7_Witness ==
  /\ pc = "done"
  /\ existingRegistry # NullRegistry
  /\ existingRegistry.schema # SCHEMA_URL
  /\ "name" \in DOMAIN existingRegistry
  /\ registryJson.json.name = existingRegistry.name
  /\ registryJson.json.name # REGISTRY_NAME

\* The dependency arrays of an item: present ones are not empty and strictly
\* ascending in code-unit order.
WellFormedDeps(item) ==
  \A f \in { "dependencies", "registryDependencies" } \cap DOMAIN item :
    /\ Len(item[f]) > 0
    /\ \A i \in 1..(Len(item[f]) - 1) : StrLess(item[f][i], item[f][i + 1])

\* C8 as stated: in every item of the written manifest the dependency arrays,
\* when present, are strictly ascending and not empty.
C8_EveryWrittenItemSorted ==
  pc = "done" => \A i \in DOMAIN writtenItems : WellFormedDeps(writtenItems[i])

\* C8 as amended: every item the run computed has dependency arrays that,
\* when present, are strictly ascending and not empty; every other written
\* item is a persisted item, arrays as persisted.
C8_ComputedItemsSorted ==
  /\ \A d \in mergedEntities : WellFormedDeps(MapGet(updatedItemMap, d[2]))
  /\ pc = "done" =>
       \A i \in DOMAIN writtenItems :
         \/ writtenItems[i] \in Range(persistedItems)
         \/ /\ WellFormedDeps(writtenItems[i])
            /\ \E d \in mergedEntities : writtenItems[i] = MapGet(updatedItemMap, d[2])

\* A written manifest with a computed item of two package dependencies, a
\* computed item without dependency fields, and a persisted item whose
\* arrays are not well formed.
C8_Witness ==
  /\ pc = "done"
  /\ \E i, j, k \in DOMAIN writtenItems :
       /\ writtenItems[i] \notin Range(persistedItems)
       /\ "dependencies" \in DOMAIN writtenItems[i]
       /\ Len(writtenItems[i].dependencies) >= 2
       /\ writtenItems[j] \notin Range(persistedItems)
       /\ DOMAIN writtenItems[j] \cap { "dependencies", "registryDependencies" } = {}
       /\ writtenItems[k] \in Range(persistedItems)
       /\ ~WellFormedDeps(writtenItems[k])

---------------------------------------------------------------------------
(* Properties of the classification.                                       *)

\* A path some UI-component pattern matches, and the pattern's capture.
IsUiPath(p) ==
  \E k \in DOMAIN SHADCN_UI_PATTERNS :
    \E n \in 2..Len(p) : p = SHADCN_UI_PATTERNS[k] \o SubSeq(p, n, Len(p))

UiCapture(p) ==
  CHOOSE c \in { SubSeq(p, n, Len(p)) : n \in 2..Len(p) } :
    \E k \in DOMAIN SHADCN_UI_PATTERNS : p = SHADCN_UI_PATTERNS[k] \o c

\* C9: every import path of the file that matches a UI-component pattern
\* adds the pattern's capture to the file's catalog dependencies and nothing
\* to its package dependencies or unresolved names, whatever the alias
\* prefixes, the Registry Entity Index and the package table say.
C9_UiPathIsCatalogDependency ==
  apc \in { "entity", "done" } =>
    \A i \in DOMAIN aSource :
      LET p == aSource[i].path
          isOther(st) == st.path # p
          rest == analyzeFile(SelectSeq(aSource, isOther), aPackageMap,
                              buildRegistryEntityMap(aTree))
      IN  IsUiPath(p) =>
            /\ aDeps.registry = rest.registry \cup { UiCapture(p) }
            /\ aDeps.npm = rest.npm
            /\ aDeps.unresolved = rest.unresolved

\* A file whose only import is a UI-component path that starts with an alias
\* prefix, resolves in the index and derives a package of the table.
C9_Witness ==
  /\ apc = "entity"
  /\ Len(aSource) = 1
  /\ aSource[1].path = <<"@","/","c","o","m","p","o","n","e","n","t","s","/","u","i","/","i","n","p","u","t">>
  /\ << <<"c","o","m","p","o","n","e","n","t","s">>, <<"u","i">> >> \in DOMAIN aTree
  /\ toPackageName(aSource[1].path) \in DOMAIN aPackageMap
  /\ aDeps = [npm |-> {}, registry |-> { <<"i","n","p","u","t">> }, unresolved |-> {}]

\* The catalog dependencies an item lists.
CatalogDepsOf(item) ==
  IF "registryDependencies" \in DOMAIN item
    THEN Range(item.registryDependencies) ELSE {}

\* C10: the item computed for an entity never lists the entity's own
\* kebab-cased name among its catalog dependencies, and removing that name
\* from them again changes nothing.
C10_NoSelfDependency ==
  apc = "done" =>
    /\ aItem # NoItem
    /\ toKebabCase(aEntity[2]) \notin CatalogDepsOf(aItem)
    /\ removeSelf(CatalogDepsOf(aItem), aEntity[2]) = CatalogDepsOf(aItem)

\* An entity whose directory name is not in kebab case and whose file imports
\* a deeper path of the entity itself, resolved by alias to its own name.
C10_Witness ==
  /\ apc = "done"
  /\ aEntity = << <<"c","o","m","p","o","n","e","n","t","s">>, <<"M","y","C","a","r","d">> >>
  /\ \E i \in DOMAIN aSource : aSource[i].path = <<"@","/","c","o","m","p","o","n","e","n","t","s","/","M","y","C","a","r","d","/","h","e","l","p","e","r","s">>
  /\ <<"m","y","-","c","a","r","d">> \in aDeps.registry
  /\ <<"m","y","-","c","a","r","d">> \notin CatalogDepsOf(aItem)
  /\ CatalogDepsOf(aItem) # {}


\* The outcome the stated priority gives an import path that no
\* UI-component pattern matches: what it adds to the three sets.
ExpectedOutcome(p, table, index) ==
  LET relative == StartsWith(p, <<".">>)
      aliases == { i \in DOMAIN LOCAL_ALIASES : StartsWith(p, LOCAL_ALIASES[i]) }
      alias == LOCAL_ALIASES[CHOOSE i \in aliases : \A j \in aliases : i <= j]
      remainder == SubSeq(p, Len(alias) + 1, Len(p))
      segments == SplitOn(remainder, {"/"})
      firstTwo == segments[1] \o <<"/">> \o segments[2]
      hit == IF remainder \in DOMAIN index THEN { index[remainder] }
             ELSE IF Len(segments) >= 2 /\ firstTwo \in DOMAIN index
               THEN { index[firstTwo] }
             ELSE {}
      all == SplitOn(p, {"/"})
      package == IF p[1] = "@" /\ Len(all) >= 2
                   THEN all[1] \o <<"/">> \o all[2] ELSE all[1]
  IN  IF ~relative /\ aliases # {} /\ hit # {}
        THEN [npm |-> {}, registry |-> hit, unresolved |-> {}]
      ELSE IF relative \/ aliases # {}
        THEN [npm |-> {}, registry |-> {}, unresolved |-> {}]
      ELSE IF package \in NODE_BUILTINS
        THEN [npm |-> {}, registry |-> {}, unresolved |-> {}]
      ELSE IF package \in DOMAIN table
        THEN [npm |-> { table[package] }, registry |-> {}, unresolved |-> {}]
      ELSE [npm |-> {}, registry |-> {}, unresolved |-> { package }]

\* C11: every import path of the file that no UI-component pattern matches
\* adds to the file's three sets exactly what the priority gives: a catalog
\* dependency on the indexed name for an alias path that hits the index by
\* its remainder or its first two segments; nothing for any other relative
\* or alias path; nothing for a builtin, even one the package table names;
\* the table's "name@version" for a package of the table; else the package
\* name as unresolved.
C11_ResolverPriority ==
  apc \in { "entity", "done" } =>
    \A i \in DOMAIN aSource :
      LET p == aSource[i].path
          isOther(st) == st.path # p
          index == buildRegistryEntityMap(aTree)
          rest == analyzeFile(SelectSeq(aSource, isOther), aPackageMap, index)
          expected == ExpectedOutcome(p, aPackageMap, index)
      IN  ~IsUiPath(p) =>
            /\ aDeps.registry = rest.registry \cup expected.registry
            /\ aDeps.npm = rest.npm \cup expected.npm
            /\ aDeps.unresolved = rest.unresolved \cup expected.unresolved

---------------------------------------------------------------------------
(* Entities without eligible files.                                        *)

\* The entity directory holds no eligible file: each file is a story, test
\* or spec file, or has neither a script nor a style-sheet extension.
NoEligibleFiles(d) ==
  \A i \in DOMAIN tree[d] :
    LET n == tree[d][i].name
    IN  \/ \E w \in { <<".","s","t","o","r","i","e","s">>, <<".","t","e","s","t">>, <<".","s","p","e","c">> } :
             \E e \in { <<".","t","s">>, <<".","t","s","x">>, <<".","j","s">>, <<".","j","s","x">> } : EndsWith(n, w \o e)
        \/ \A e \in { <<".","t","s">>, <<".","t","s","x">>, <<".","j","s">>, <<".","j","s","x">>, <<".","c","s","s">> } : ~EndsWith(n, e)

\* The number of console lines with one of the messages.
CountLogged(msgs) == Cardinality({ i \in DOMAIN console : console[i].msg \in msgs })

\* The step of the inner loop on an entity without eligible files leaves the
\* item map and the added and updated counts as they are, and the run stays
\* in its loops.
SkipsNoSourceEntity ==
  (/\ pc = "entity"
   /\ NoEligibleFiles(<< activeCategories[catIdx], Head(entityNames) >>)) =>
    /\ updatedItemMap' = updatedItemMap
    /\ summary'.added = summary.added
    /\ summary'.updated = summary.updated
    /\ pc' \in { "entity", "category" }
    /\ exitCode' = exitCode

\* No entity without eligible files is among the merged ones, the counts
\* are those of the merged entities, and a run that has written has visited
\* every targeted entity.
NoSourceEntitiesLeftOut ==
  /\ \A d \in DOMAIN tree : NoEligibleFiles(d) => d \notin mergedEntities
  /\ summary.added = CountLogged({ "added" })
  /\ summary.updated = CountLogged({ "updated" })
  /\ pc = "done" =>
       /\ writes = 1
       /\ \A d \in DOMAIN tree :
            isTargeted(options.targets, d[1], d[2]) =>
              d \in reprocessedEntities \cup skippedEntities

\* C12: an entity with no eligible source file is skipped: the run inserts
\* or overwrites no item for it, counts it neither as added nor as updated,
\* and goes on to the remaining entities and to the write of the manifest.
C12_NoSourceEntitySkipped ==
  []NoSourceEntitiesLeftOut /\ [][SkipsNoSourceEntity]_vars

\* A run that met an entity holding only story, spec and other files, then
\* added another entity, and wrote the manifest.
C12_Witness ==
  /\ pc = "done"
  /\ writes = 1
  /\ \E i, j \in DOMAIN console :
       /\ i < j
       /\ console[i].msg = "no source files"
       /\ tree[<< console[i].category, console[i].entity >>] = FilesNoSource
       /\ console[j].msg = "added"
       /\ MapHas(updatedItemMap, console[j].entity)
       /\ ~MapHas(updatedItemMap, console[i].entity)
====
